---- MODULE Spec2Model ----
(***************************************************************************)
(* Model of django_common/views/generic/edit.py: FormsMixin (configuration,*)
(* form construction, success / failure handling) and ProcessFormsView     *)
(* (get / post / put).  A handler runs synchronously inside one call, so   *)
(* each handler is one action; the calls it makes are recorded, in order,  *)
(* in `log`.                                                               *)
(***************************************************************************)
EXTENDS Integers, Sequences, FiniteSets, TLC

VARIABLES
    form_classes,   \* FormsMixin.form_classes (class attribute)
    success_url,    \* FormsMixin.success_url (class attribute)
    configured,     \* contents of FormsMixin.initial at start-up
    heap,           \* mapping objects; heap[InitialRef] is FormsMixin.initial
    listObj,        \* length of the one mutable list stored as value "L"
    request,        \* self.request of the last handled request
    forms,          \* the forms built by the last handler
    response,       \* what the last handler returned or raised
    log,            \* the calls the last handler made, in order
    returned,       \* the objects get_initial() returned since the request began
    seen,           \* what the holder of each returned mapping put into it
    nmut,           \* mutations made since the request began
    prev            \* the write request handled before, and its outcome

vars == <<form_classes, success_url, configured, heap, listObj, request,
          forms, response, log, returned, seen, nmut, prev>>

----------------------------------------------------------------------------
(* Bounds *)

MaxMutations == 1   \* mutations of returned mappings per request
MaxCalls == 1       \* direct get_initial() calls per request
MaxAppends == 1     \* appends to the shared list

----------------------------------------------------------------------------
(* Inputs *)

Keys == {"login", "signup"}
FormClassNames == {"LoginForm", "SignupForm"}
Methods == {"GET", "POST", "PUT"}
PostData == {"good", "partial", "bad"}
FilesData == {"f0", "f1"}
InitialKeys == {"name"}
InitialValues == {"v1", "L"}

None == [isNone |-> TRUE, map |-> <<>>]
Mapping(m) == [isNone |-> FALSE, map |-> m]

NoUrl == [kind |-> "None", text |-> ""]
Str(s) == [kind |-> "str", text |-> s]
Lazy(s) == [kind |-> "lazy", text |-> s]

\* every dict over a subset of K with values in V
Dicts(K, V) == UNION {[D -> V] : D \in SUBSET K}

FormClassesConfigs == {None} \cup {Mapping(m) : m \in Dicts(Keys, FormClassNames)}
SuccessUrlConfigs == {NoUrl, Str(""), Str("/welcome"), Lazy("/welcome")}
InitialConfigs == Dicts(InitialKeys, InitialValues)

Requests == [method : Methods, POST : PostData, FILES : FilesData]
NoRequest == [method |-> "", POST |-> "", FILES |-> ""]

\* the orders in which a dict with key set S may be iterated
Orders(S) == {o \in [1..Cardinality(S) -> S] :
                 \A i, j \in 1..Cardinality(S) : i # j => o[i] # o[j]}

----------------------------------------------------------------------------
(* Call log *)

Ev(op) == [op |-> op, key |-> "", inst |-> 0]
EvForm(op, key, inst) == [op |-> op, key |-> key, inst |-> inst]

----------------------------------------------------------------------------
(* FormsMixin *)

InitialRef == 1

\* names bound at module level by the import statements and class statements
ModuleNames == {"model_forms", "ImproperlyConfigured", "HttpResponseRedirect",
                "force_text", "TemplateResponseMixin", "ContextMixin", "View",
                "SingleObjectMixin", "SingleObjectTemplateResponseMixin",
                "BaseDetailView", "FormsMixin", "ProcessFormsView",
                "BaseFormsView", "FormsView"}

\* evaluating raise E(args) where building args looks a global name up
RaiseUsing(name, exc) == IF name \in ModuleNames THEN exc ELSE "NameError"

\* Python truth value of form_classes: None and the empty dict are false
Truthy(fc) == ~fc.isNone /\ DOMAIN fc.map # {}

\* Python truth value of success_url: None and the empty string are false
UrlTruthy(su) == su.kind # "None" /\ su.text # ""

get_initial_nocopy(h) == [ref |-> InitialRef, heap |-> h]

get_initial(h) == [ref |-> Len(h) + 1, heap |-> Append(h, h[InitialRef])]

get_form_classes_empty_ok(fc) ==
    IF fc.isNone
    THEN [raised |-> RaiseUsing("_", "ImproperlyConfigured"), value |-> <<>>]
    ELSE [raised |-> "", value |-> fc.map]

get_form_classes(fc) ==
    IF ~Truthy(fc)
    THEN [raised |-> RaiseUsing("_", "ImproperlyConfigured"), value |-> <<>>]
    ELSE [raised |-> "", value |-> fc.map]

get_form_kwargs_post_only(h, req) ==
    LET gi == get_initial(h)
        kwargs == "initial" :> gi.ref
    IN [kwargs |-> IF req.method \in {"POST"}
                   THEN kwargs @@ ("data" :> req.POST) @@ ("files" :> req.FILES)
                   ELSE kwargs,
        heap |-> gi.heap]

get_form_kwargs_always(h, req) ==
    LET gi == get_initial(h)
        kwargs == "initial" :> gi.ref
    IN [kwargs |-> kwargs @@ ("data" :> req.POST) @@ ("files" :> req.FILES),
        heap |-> gi.heap]

get_form_kwargs(h, req) ==
    LET gi == get_initial(h)
        kwargs == "initial" :> gi.ref
    IN [kwargs |-> IF req.method \in {"POST", "PUT"}
                   THEN kwargs @@ ("data" :> req.POST) @@ ("files" :> req.FILES)
                   ELSE kwargs,
        heap |-> gi.heap]

\* form_classes[key](**kwargs): a new form instance
Construct(cls, kwargs, inst) == [cls |-> cls, kwargs |-> kwargs, inst |-> inst]

RECURSIVE GetFormsLoop(_, _, _, _, _)
GetFormsLoop(i, order, classes, req, acc) ==
    IF i > Len(order) THEN acc
    ELSE LET key == order[i]
             kw == get_form_kwargs(acc.heap, req)
             form == Construct(classes[key], kw.kwargs, i)
         IN GetFormsLoop(i + 1, order, classes, req,
                [forms |-> acc.forms @@ (key :> form),
                 heap |-> kw.heap,
                 log |-> Append(acc.log, EvForm("construct", key, i)),
                 refs |-> Append(acc.refs, kw.kwargs["initial"])])

get_forms_first_class(order, classes, h, req) ==
    LET one == [k \in DOMAIN classes |-> classes[order[1]]]
    IN GetFormsLoop(1, order, one, req,
                    [forms |-> <<>>, heap |-> h, log |-> <<>>, refs |-> <<>>])

get_forms(order, classes, h, req) ==
    GetFormsLoop(1, order, classes, req,
                 [forms |-> <<>>, heap |-> h, log |-> <<>>, refs |-> <<>>])

\* force_text(): a str is returned as it is, a lazy object is evaluated
force_text(su) == Str(su.text)

get_success_url_unforced(su) ==
    IF UrlTruthy(su)
    THEN [raised |-> "", value |-> su]
    ELSE [raised |-> "ImproperlyConfigured", value |-> NoUrl]

get_success_url(su) ==
    IF UrlTruthy(su)
    THEN [raised |-> "", value |-> force_text(su)]
    ELSE [raised |-> "ImproperlyConfigured", value |-> NoUrl]

----------------------------------------------------------------------------
(* Collaborators: the form engine and the response classes *)

\* the data each form class accepts
Accepts(cls, data) ==
    \/ cls = "LoginForm" /\ data \in {"good", "partial"}
    \/ cls = "SignupForm" /\ data \in {"good"}

\* Form.is_valid(): the form is bound and its data has no errors
is_valid(form) ==
    /\ "data" \in DOMAIN form.kwargs
    /\ Accepts(form.cls, form.kwargs["data"])

ViewSelf == [cls |-> "FormsView", kwargs |-> <<>>, inst |-> 0]

\* ContextMixin.get_context_data(**kwargs): the kwargs and, unless given, the view
get_context_data(fs) ==
    IF "view" \in DOMAIN fs THEN fs ELSE fs @@ ("view" :> ViewSelf)

NoContext == <<>>

Redirect(url) == [kind |-> "redirect", url |-> url, context |-> NoContext,
                  error |-> ""]
Render(ctx) == [kind |-> "render", url |-> NoUrl, context |-> ctx, error |-> ""]
Raised(exc) == [kind |-> "error", url |-> NoUrl, context |-> NoContext,
                error |-> exc]
NoResponse == [kind |-> "none", url |-> NoUrl, context |-> NoContext,
               error |-> ""]

----------------------------------------------------------------------------
(* FormsMixin.forms_valid / forms_invalid *)

\* a bug: the forms are built anew for the response
forms_invalid_rebuilt(fs) ==
    [response |-> Render(get_context_data(
                     [k \in DOMAIN fs |->
                         Construct(fs[k].cls, fs[k].kwargs, fs[k].inst + Cardinality(DOMAIN fs))])),
     log |-> <<Ev("forms_invalid"), Ev("render_to_response")>>]

forms_invalid(fs) ==
    [response |-> Render(get_context_data(fs)),
     log |-> <<Ev("forms_invalid"), Ev("render_to_response")>>]

forms_valid_renders(fs, su) == forms_invalid(fs)

forms_valid(fs, su) ==
    LET gsu == get_success_url(su)
    IN IF gsu.raised # ""
       THEN [response |-> Raised(gsu.raised),
             log |-> <<Ev("forms_valid"), Ev("get_success_url")>>]
       ELSE [response |-> Redirect(gsu.value),
             log |-> <<Ev("forms_valid"), Ev("get_success_url"),
                       Ev("HttpResponseRedirect")>>]

----------------------------------------------------------------------------
(* ProcessFormsView *)

\* all(forms[form].is_valid() for form in forms): stops at the first False
AllValid_short(order, fs) ==
    LET bad == {i \in 1..Len(order) : ~is_valid(fs[order[i]])}
        n == IF bad = {} THEN Len(order)
             ELSE CHOOSE i \in bad : \A j \in bad : i <= j
    IN [ok |-> bad = {},
        log |-> [i \in 1..n |-> EvForm("is_valid", order[i], fs[order[i]].inst)]]

\* [forms[form].is_valid() for form in forms], then all()
AllValid(order, fs) ==
    [ok |-> \A i \in 1..Len(order) : is_valid(fs[order[i]]),
     log |-> [i \in 1..Len(order) |->
                 EvForm("is_valid", order[i], fs[order[i]].inst)]]

Failed(exc, h) ==
    [response |-> Raised(exc), forms |-> <<>>, heap |-> h,
     log |-> <<Ev("get_form_classes")>>, refs |-> <<>>]

get(req, o1, fc, h) ==
    LET gfc == get_form_classes(fc)
    IN IF gfc.raised # "" THEN Failed(gfc.raised, h)
       ELSE LET built == get_forms(o1, gfc.value, h, req)
            IN [response |-> Render(get_context_data(built.forms)),
                forms |-> built.forms, heap |-> built.heap,
                log |-> <<Ev("get_form_classes")>> \o built.log
                        \o <<Ev("render_to_response")>>,
                refs |-> built.refs]

post(req, o1, o2, fc, su, h) ==
    LET gfc == get_form_classes(fc)
    IN IF gfc.raised # "" THEN Failed(gfc.raised, h)
       ELSE LET built == get_forms(o1, gfc.value, h, req)
                val == AllValid(o2, built.forms)
                out == IF val.ok THEN forms_valid(built.forms, su)
                       ELSE forms_invalid(built.forms)
            IN [response |-> out.response,
                forms |-> built.forms, heap |-> built.heap,
                log |-> <<Ev("get_form_classes")>> \o built.log \o val.log
                        \o out.log,
                refs |-> built.refs]

put(req, o1, o2, fc, su, h) == post(req, o1, o2, fc, su, h)

----------------------------------------------------------------------------
(* State machine *)

ClassKeys == IF form_classes.isNone THEN {} ELSE DOMAIN form_classes.map

\* a new request: the objects of the request before are gone
FreshHeap == <<heap[InitialRef]>>

Finish(req, r) ==
    /\ request' = req
    /\ forms' = r.forms
    /\ response' = r.response
    /\ log' = r.log
    /\ heap' = r.heap
    /\ returned' = r.refs
    /\ seen' = [i \in 1..Len(r.refs) |-> configured]
    /\ nmut' = 0
    /\ UNCHANGED <<form_classes, success_url, configured, listObj>>

Get ==
    \E req \in Requests, o1 \in Orders(ClassKeys) :
        /\ req.method = "GET"
        /\ Finish(req, get(req, o1, form_classes, FreshHeap))

Post ==
    \E req \in Requests, o1, o2 \in Orders(ClassKeys) :
        /\ req.method = "POST"
        /\ Finish(req, post(req, o1, o2, form_classes, success_url, FreshHeap))

Put ==
    \E req \in Requests, o1, o2 \in Orders(ClassKeys) :
        /\ req.method = "PUT"
        /\ Finish(req, put(req, o1, o2, form_classes, success_url, FreshHeap))

\* what a request came to: the keyword arguments each form was built with
\* (the initial mapping by its contents), the forms validated, the result
Outcome ==
    [request |-> request,
     kwargs |-> [k \in DOMAIN forms |->
                    [a \in DOMAIN forms[k].kwargs |->
                        IF a = "initial" THEN heap[forms[k].kwargs[a]]
                        ELSE forms[k].kwargs[a]]],
     validated |-> {log[i].key : i \in {j \in 1..Len(log) : log[j].op = "is_valid"}},
     kind |-> response.kind,
     url |-> response.url,
     error |-> response.error,
     rendered |-> DOMAIN response.context]
NoOutcome == [request |-> NoRequest, kwargs |-> <<>>, validated |-> {},
              kind |-> "none", url |-> NoUrl, error |-> "", rendered |-> {}]

\* remember the write request handled before this one
Remember ==
    prev' = IF request.method \in {"POST", "PUT"} THEN Outcome ELSE prev

Init ==
    /\ form_classes \in FormClassesConfigs
    /\ success_url \in SuccessUrlConfigs
    /\ configured \in InitialConfigs
    /\ heap = <<configured>>
    /\ listObj = 0
    /\ request = NoRequest
    /\ forms = <<>>
    /\ response = NoResponse
    /\ log = <<>>
    /\ returned = <<>>
    /\ seen = <<>>
    /\ nmut = 0
    /\ prev = NoOutcome

Next ==
    \/ Get /\ Remember
    \/ Post /\ Remember
    \/ Put /\ Remember

Spec == Init /\ [][Next]_vars

----------------------------------------------------------------------------
(* The holders of the mappings get_initial() returned: the forms, and view *)
(* code that calls get_initial() itself.                                   *)

Frame == UNCHANGED <<form_classes, success_url, configured, request, forms,
                     response, log, prev>>

\* view code calls self.get_initial()
GetInitialCall ==
    /\ request # NoRequest
    /\ Len(returned) < Cardinality(DOMAIN forms) + MaxCalls
    /\ LET gi == get_initial(heap)
       IN /\ heap' = gi.heap
          /\ returned' = Append(returned, gi.ref)
          /\ seen' = Append(seen, configured)
    /\ UNCHANGED <<listObj, nmut>>
    /\ Frame

\* d[k] = v on the i-th returned mapping
SetItem ==
    \E i \in 1..Len(returned), k \in InitialKeys, v \in InitialValues :
        /\ nmut < MaxMutations
        /\ heap' = [heap EXCEPT ![returned[i]] = (k :> v) @@ @]
        /\ seen' = [seen EXCEPT ![i] = (k :> v) @@ @]
        /\ nmut' = nmut + 1
        /\ UNCHANGED <<returned, listObj>>
        /\ Frame

Without(d, k) == [x \in DOMAIN d \ {k} |-> d[x]]

\* del d[k] on the i-th returned mapping
DelItem ==
    \E i \in 1..Len(returned), k \in InitialKeys :
        /\ nmut < MaxMutations
        /\ k \in DOMAIN heap[returned[i]]
        /\ heap' = [heap EXCEPT ![returned[i]] = Without(@, k)]
        /\ seen' = [seen EXCEPT ![i] = Without(@, k)]
        /\ nmut' = nmut + 1
        /\ UNCHANGED <<returned, listObj>>
        /\ Frame

\* d[k].append(x) on the i-th returned mapping: the list is shared, the
\* mapping itself is not changed
AppendToValue ==
    \E i \in 1..Len(returned), k \in InitialKeys :
        /\ k \in DOMAIN heap[returned[i]]
        /\ heap[returned[i]][k] = "L"
        /\ listObj < MaxAppends
        /\ listObj' = listObj + 1
        /\ UNCHANGED <<heap, returned, seen, nmut>>
        /\ Frame

NextHolders ==
    \/ Get /\ UNCHANGED prev
    \/ Post /\ UNCHANGED prev
    \/ Put /\ UNCHANGED prev
    \/ GetInitialCall
    \/ SetItem
    \/ DelItem
    \/ AppendToValue

\* the redirect target plays no part here: one configured target
InitHolders == Init /\ success_url = Str("/welcome")

SpecHolders == InitHolders /\ [][NextHolders]_vars

----------------------------------------------------------------------------
(* Properties *)

Idx(op) == {i \in 1..Len(log) : log[i].op = op}
Did(op) == Idx(op) # {}
IsWrite == request.method \in {"POST", "PUT"}
Built == DOMAIN forms # {}
EveryFormValid == \A k \in DOMAIN forms : is_valid(forms[k])
EmptyMapping == ~form_classes.isNone /\ DOMAIN form_classes.map = {}

\* C1: a write request whose forms (at least one) are all valid, on a view
\* with a success_url, is answered by a redirect to the success URL as a
\* string, and nothing is rendered.
C1_ValidRedirects ==
    (IsWrite /\ Built /\ EveryFormValid /\ UrlTruthy(success_url)) =>
        /\ response.kind = "redirect"
        /\ response.url.kind = "str"
        /\ response.url.text = success_url.text
        /\ ~Did("render_to_response")

C1_Witness ==
    /\ request.method = "PUT"
    /\ Cardinality(DOMAIN forms) = 2
    /\ EveryFormValid
    /\ success_url = Lazy("/welcome")
    /\ response.kind = "redirect"

\* C2: a write request with at least one invalid form is answered by a
\* render, never a redirect, get_success_url is not called, and the context
\* holds every configured form under its identifier: the very instances
\* that were validated.
C2_InvalidRenders ==
    (IsWrite /\ \E k \in DOMAIN forms : ~is_valid(forms[k])) =>
        /\ response.kind = "render"
        /\ ~Did("get_success_url")
        /\ ~Did("HttpResponseRedirect")
        /\ \A k \in ClassKeys :
              /\ k \in DOMAIN response.context
              /\ response.context[k] = forms[k]
              /\ \E i \in Idx("is_valid") :
                    /\ log[i].key = k
                    /\ log[i].inst = response.context[k].inst

C2_Witness ==
    /\ request.method = "POST"
    /\ response.kind = "render"
    /\ \E k1, k2 \in DOMAIN forms : is_valid(forms[k1]) /\ ~is_valid(forms[k2])

\* C3: on a write request is_valid() has been called on every form of the
\* set before forms_valid or forms_invalid is entered, in whatever order
\* the forms are visited and also after an invalid form was met.
C3_AllEvaluatedBeforeBranch ==
    (IsWrite /\ (Did("forms_valid") \/ Did("forms_invalid"))) =>
        \A k \in ClassKeys :
            \E i \in Idx("is_valid") :
                /\ log[i].key = k
                /\ \A j \in Idx("forms_valid") \cup Idx("forms_invalid") : i < j

C3_Witness ==
    /\ IsWrite
    /\ Did("forms_invalid")
    /\ \E i, j \in Idx("is_valid") :
          /\ i < j
          /\ ~is_valid(forms[log[i].key])
          /\ is_valid(forms[log[j].key])

\* C4: a GET request on a view with forms configured never calls is_valid(),
\* builds every form from initial data alone (no data, no files), renders
\* the context holding those forms and reaches neither forms_valid nor
\* forms_invalid.
C4_GetUnbound ==
    (request.method = "GET" /\ Truthy(form_classes)) =>
        /\ ~Did("is_valid")
        /\ ~Did("forms_valid")
        /\ ~Did("forms_invalid")
        /\ DOMAIN forms = ClassKeys
        /\ response.kind = "render"
        /\ \A k \in ClassKeys :
              /\ DOMAIN forms[k].kwargs = {"initial"}
              /\ k \in DOMAIN response.context
              /\ response.context[k] = forms[k]

C4_Witness ==
    /\ request.method = "GET"
    /\ Cardinality(DOMAIN forms) = 2
    /\ response.kind = "render"

\* C5: with form_classes not configured every request fails with
\* ImproperlyConfigured, before any form is constructed or validated and
\* before anything is rendered or redirected.
C5_MissingFormClassesImproperlyConfigured ==
    (request # NoRequest /\ form_classes.isNone) =>
        /\ response.kind = "error"
        /\ response.error = "ImproperlyConfigured"
        /\ log = <<Ev("get_form_classes")>>

\* C6: get_initial() returns a copy: whatever the holders of the returned
\* mappings (the forms among them) set or delete in them, FormsMixin.initial
\* keeps its configured contents, every returned mapping holds exactly what
\* its own holder put there, and no two returned mappings, nor a returned
\* mapping and FormsMixin.initial, are one object.
C6_InitialIsCopied ==
    /\ heap[InitialRef] = configured
    /\ Len(seen) = Len(returned)
    /\ \A i \in 1..Len(returned) :
          /\ returned[i] # InitialRef
          /\ heap[returned[i]] = seen[i]
          /\ \A j \in 1..Len(returned) : i # j => returned[i] # returned[j]
    /\ \A k \in DOMAIN forms :
          \E i \in 1..Len(returned) : forms[k].kwargs["initial"] = returned[i]

C6_Witness ==
    /\ nmut > 0
    /\ Cardinality(DOMAIN forms) = 2
    /\ Len(returned) = 3
    /\ \E k \in DOMAIN forms : heap[forms[k].kwargs["initial"]] # configured
    /\ \E i \in 1..Len(returned) : heap[returned[i]] = configured

\* C7: get_success_url() raises ImproperlyConfigured when no target is
\* configured and otherwise gives the target as a string; so a write request
\* with all forms valid and no success_url ends in ImproperlyConfigured,
\* nothing redirected and nothing rendered.
C7_SuccessUrl ==
    (IsWrite /\ Built /\ EveryFormValid) =>
        /\ Did("get_success_url")
        /\ IF UrlTruthy(success_url)
           THEN response = Redirect(Str(success_url.text))
           ELSE /\ response = Raised("ImproperlyConfigured")
                /\ ~Did("HttpResponseRedirect")
                /\ ~Did("render_to_response")

C7_Witness ==
    /\ IsWrite
    /\ Built
    /\ EveryFormValid
    /\ success_url = NoUrl
    /\ response.error = "ImproperlyConfigured"

\* C8: a PUT and a POST with the same submitted data and files, on the same
\* view, build the forms with the same keyword arguments, validate the same
\* forms and end the same way.
C8_PutAsPost ==
    (/\ IsWrite
     /\ prev.request.method \in {"POST", "PUT"}
     /\ prev.request.method # request.method
     /\ prev.request.POST = request.POST
     /\ prev.request.FILES = request.FILES) =>
        /\ Outcome.kwargs = prev.kwargs
        /\ Outcome.validated = prev.validated
        /\ Outcome.kind = prev.kind
        /\ Outcome.url = prev.url
        /\ Outcome.error = prev.error
        /\ Outcome.rendered = prev.rendered

C8_Witness ==
    /\ request.method = "PUT"
    /\ prev.request.method = "POST"
    /\ prev.request.POST = request.POST
    /\ prev.request.FILES = request.FILES
    /\ Cardinality(DOMAIN forms) = 2
    /\ prev.kind = "redirect"
    /\ response.kind = "redirect"

\* C9: get_forms gives a mapping with the key set of the classes it was
\* given, each key holding the instance its own class built, and it calls
\* one constructor per key.
C9_GetForms ==
    (request # NoRequest /\ Truthy(form_classes)) =>
        /\ DOMAIN forms = DOMAIN form_classes.map
        /\ \A i \in Idx("construct") : log[i].key \in DOMAIN form_classes.map
        /\ \A k \in DOMAIN form_classes.map :
              /\ forms[k].cls = form_classes.map[k]
              /\ Cardinality({i \in Idx("construct") : log[i].key = k}) = 1
              /\ \A i \in Idx("construct") :
                    log[i].key = k => log[i].inst = forms[k].inst

C9_Witness ==
    /\ DOMAIN forms = Keys
    /\ forms["login"].cls = "SignupForm"
    /\ forms["signup"].cls = "LoginForm"
    /\ Cardinality(Idx("construct")) = 2

\* C10 as stated: with form_classes an empty mapping a write request goes on
\* to forms_valid and redirects; the empty mapping is not an error.
C10_EmptyProceeds ==
    (IsWrite /\ EmptyMapping) =>
        /\ Did("forms_valid")
        /\ response.kind # "error" \/ ~UrlTruthy(success_url)

\* C10 amended: with form_classes an empty mapping a write request ends in
\* the exception get_form_classes() raises, before any form is constructed
\* or validated; forms_valid is not reached, nothing is redirected or
\* rendered.
C10_EmptyRaises ==
    (IsWrite /\ EmptyMapping) =>
        /\ response.kind = "error"
        /\ log = <<Ev("get_form_classes")>>
        /\ forms = <<>>

C10_Witness ==
    /\ IsWrite
    /\ EmptyMapping
    /\ UrlTruthy(success_url)
    /\ response.kind = "error"

====
